---------------------------- MODULE Spec2Model ----------------------------
(***************************************************************************)
(* A model of the sexpr_parser library (src/src/sexpr_parser.cpp).         *)
(*                                                                         *)
(* A std::string is a sequence of one-character strings.  A TreeNode is a  *)
(* record with the three fields of the class: is_leaf, value, children.    *)
(* The library is a set of pure functions; the state machine is a caller   *)
(* that types a text, parses it or constructs nodes directly, and applies  *)
(* the library's operations to the forest it holds.                        *)
(***************************************************************************)
EXTENDS Integers, Sequences, FiniteSets, TLC

VARIABLES
  text,    \* the S-expression text the caller is typing
  forest,  \* the std::vector<TreeNode> the caller holds
  out      \* the last library call: its name, arguments and result

vars == <<text, forest, out>>

-----------------------------------------------------------------------------
(* Bounds of the model *)

\* most pieces the caller types into a text
MaxText == 5
\* the caller adds a node to a forest of at most this many nodes
MaxNodes == 3

\* what the caller types in one step: a character, or the word OR
TextPieces == { <<"(">>, <<")">>, <<"\n">>, <<";">>, <<"O", "R">> }

\* longest word the caller makes a single leaf of
MaxWord == 3

\* leaf values the caller builds forests from
LeafValues == { <<"a">>, <<"?", "x">>, <<"<", "=">>, <<>> }

\* the atoms ReplaceAtoms is called with
BeforeValues == { <<"a">>, <<"o", "r">>, <<"<", "=">> }
AfterValues == { <<"O", "R">>, <<"b">> }

\* characters of the words a single leaf is made of
CaseChars == {"O", "o", "R", "r", "n", "T"}
AtomChars == {"?", "v", "+", "_"}
SexprChars == {"a", ";", "(", " "}

\* prefixes the encoder is called with: <<functor_prefix, atom_prefix>>
Prefixes == { << <<>>, <<>> >>, << <<"f", "_">>, <<"p", "_">> >> }
AtomPrefixes == { <<>>, <<"p", "_">> }

\* the longest text given to RemoveComments
MaxLine == 4
\* the characters of those texts: a comment start, the line separators, a word
CommentChars == { ";", "\n", "\r", "\f", "a" }

\* the variables rendered two at a time
VariableNames ==
  { <<"?", "a">>, <<"?", "a", "+">>, <<"?", "a", "_", "c", "4", "3", "_">> }

\* the sequences over S of length at most n
SeqUpTo(S, n) == UNION { [1..k -> S] : k \in 0..n }

-----------------------------------------------------------------------------
(* Characters *)

UpperCase == <<"A","B","C","D","E","F","G","H","I","J","K","L","M",
               "N","O","P","Q","R","S","T","U","V","W","X","Y","Z">>
LowerCase == <<"a","b","c","d","e","f","g","h","i","j","k","l","m",
               "n","o","p","q","r","s","t","u","v","w","x","y","z">>
Digits == <<"0","1","2","3","4","5","6","7","8","9">>

Range(s) == { s[i] : i \in DOMAIN s }

\* ::tolower in the C locale
tolower(c) ==
  IF \E i \in DOMAIN UpperCase : UpperCase[i] = c
  THEN LowerCase[CHOOSE i \in DOMAIN UpperCase : UpperCase[i] = c]
  ELSE c

\* std::isalnum in the C locale, on ASCII characters
isalnum(c) == c \in Range(UpperCase) \cup Range(LowerCase) \cup Range(Digits)

-----------------------------------------------------------------------------
(* Reserved words and leaf construction *)

reserved_words ==
  { <<"r","o","l","e">>, <<"i","n","i","t">>, <<"t","r","u","e">>,
    <<"d","o","e","s">>, <<"l","e","g","a","l">>, <<"n","e","x","t">>,
    <<"g","o","a","l">>, <<"t","e","r","m","i","n","a","l">>,
    <<"i","n","p","u","t">>, <<"b","a","s","e">>, <<"o","r">>,
    <<"n","o","t">>, <<"d","i","s","t","i","n","c","t">> }

ToLowerCase(str) == [i \in 1..Len(str) |-> tolower(str[i])]

\* the bug of lowering every word
LowerEveryWord(word) == ToLowerCase(word)

LowerReservedWords(word) ==
  LET lowered == ToLowerCase(word)
  IN  IF lowered \in reserved_words THEN lowered ELSE word

\* TreeNode::TreeNode(const std::string& value)
TreeNode(value) ==
  [is_leaf |-> TRUE, value |-> LowerReservedWords(value), children |-> <<>>]

\* TreeNode::TreeNode(const std::vector<TreeNode>& children)
TreeNodeOfChildren(children) ==
  [is_leaf |-> FALSE, value |-> <<>>, children |-> children]

IsLeaf(node) == node.is_leaf

IsVariable(node) ==
  node.is_leaf /\ node.value # <<>> /\ node.value[1] = "?"

-----------------------------------------------------------------------------
(* ToSexpr *)

RECURSIVE ToSexpr(_), ChildrenToSexprFrom(_, _), ChildrenToSexprUnspaced(_, _)

\* the bug of leaving out the space between two children
ChildrenToSexprUnspaced(children, i) ==
  IF i > Len(children) THEN <<>>
  ELSE ToSexpr(children[i]) \o ChildrenToSexprUnspaced(children, i + 1)

\* the loop of ToSexpr over children_, from the i-th child on
ChildrenToSexprFrom(children, i) ==
  IF i > Len(children) THEN <<>>
  ELSE (IF i # 1 THEN <<" ">> ELSE <<>>)
       \o ToSexpr(children[i]) \o ChildrenToSexprFrom(children, i + 1)

ToSexpr(node) ==
  IF node.is_leaf THEN node.value
  ELSE <<"(">> \o ChildrenToSexprFrom(node.children, 1) \o <<")">>

-----------------------------------------------------------------------------
(* RemoveComments: boost::regex_replace(sexpr, ";.*?$", "").  The pattern  *)
(* is non-greedy and $ matches at the end of the text and before a line    *)
(* separator: a match runs from a ";" up to the next separator or the end. *)

LineSeparators == {"\n", "\r", "\f"}

RECURSIVE RemoveCommentsFrom(_, _, _), RemoveCommentsWithLineEnd(_, _, _)

\* the bug of taking the line separator away with the comment
RemoveCommentsWithLineEnd(sexpr, i, in_comment) ==
  IF i > Len(sexpr) THEN <<>>
  ELSE IF in_comment
       THEN RemoveCommentsWithLineEnd(sexpr, i + 1, sexpr[i] \notin LineSeparators)
       ELSE IF sexpr[i] = ";"
            THEN RemoveCommentsWithLineEnd(sexpr, i + 1, TRUE)
            ELSE <<sexpr[i]>> \o RemoveCommentsWithLineEnd(sexpr, i + 1, FALSE)

RemoveCommentsFrom(sexpr, i, in_comment) ==
  IF i > Len(sexpr) THEN <<>>
  ELSE IF in_comment
       THEN IF sexpr[i] \in LineSeparators
            THEN <<sexpr[i]>> \o RemoveCommentsFrom(sexpr, i + 1, FALSE)
            ELSE RemoveCommentsFrom(sexpr, i + 1, TRUE)
       ELSE IF sexpr[i] = ";"
            THEN RemoveCommentsFrom(sexpr, i + 1, TRUE)
            ELSE <<sexpr[i]>> \o RemoveCommentsFrom(sexpr, i + 1, FALSE)

RemoveComments(sexpr) == RemoveCommentsFrom(sexpr, 1, FALSE)

-----------------------------------------------------------------------------
(* The tokenizer: boost::char_separator<char> sep(" \n\t\r", "()")         *)

dropped_delims == {" ", "\n", "\t", "\r"}
kept_delims == {"(", ")"}

RECURSIVE TokenizeFrom(_, _, _)
\* tok is the token being accumulated
TokenizeFrom(s, i, tok) ==
  LET flush == IF tok = <<>> THEN <<>> ELSE <<tok>>
  IN  IF i > Len(s) THEN flush
      ELSE IF s[i] \in dropped_delims
           THEN flush \o TokenizeFrom(s, i + 1, <<>>)
      ELSE IF s[i] \in kept_delims
           THEN flush \o << <<s[i]>> >> \o TokenizeFrom(s, i + 1, <<>>)
      ELSE TokenizeFrom(s, i + 1, Append(tok, s[i]))

Tokenizer(s) == TokenizeFrom(s, 1, <<>>)

-----------------------------------------------------------------------------
(* Parse.  A Tokenizer::iterator is an index into the token sequence; the  *)
(* end iterator is Len(tokens) + 1.  The code dereferences the iterator    *)
(* without comparing it to the end.  What a dereference past the end does  *)
(* depends on the build: with BOOST_ASSERT compiled in (checked) the       *)
(* program aborts; without it the iterator yields the token it read last   *)
(* and an increment leaves it at the end.                                  *)

Deref(tokens, i) == IF i <= Len(tokens) THEN tokens[i] ELSE tokens[Len(tokens)]
Incr(tokens, i) == IF i <= Len(tokens) THEN i + 1 ELSE i

\* the bug of flattening only a tuple whose one child is a leaf
FlattensLeaf(flatten_tuple_with_one_child, children) ==
  flatten_tuple_with_one_child /\ Len(children) = 1 /\ children[1].is_leaf

\* the condition of line 478
Flattens(flatten_tuple_with_one_child, children) ==
  flatten_tuple_with_one_child /\ Len(children) = 1

RECURSIVE ParseTillRightParen(_, _, _, _), ParseTillRightParenLoop(_, _, _, _, _)

\* the for loop of ParseTillRightParen
ParseTillRightParenLoop(tokens, i, children, flat, checked) ==
  IF i > Len(tokens) /\ checked THEN [status |-> "abort"]
  ELSE IF Deref(tokens, i) = <<")">>
       THEN [status |-> "ok", children |-> children, i |-> i]
  ELSE IF i > Len(tokens)
       \* the stale token is not ")": the loop (or the recursion) never ends
       THEN [status |-> "exhausted"]
  ELSE IF Deref(tokens, i) = <<"(">>
       THEN LET r == ParseTillRightParen(tokens, Incr(tokens, i), flat, checked)
            IN  IF r.status # "ok" THEN r
                ELSE ParseTillRightParenLoop(tokens, Incr(tokens, r.i),
                                             Append(children, r.node), flat, checked)
  ELSE ParseTillRightParenLoop(tokens, Incr(tokens, i),
                               Append(children, TreeNode(Deref(tokens, i))),
                               flat, checked)

ParseTillRightParen(tokens, i, flat, checked) ==
  LET r == ParseTillRightParenLoop(tokens, i, <<>>, flat, checked)
  IN  IF r.status # "ok" THEN r
      ELSE [status |-> "ok",
            node |-> IF Flattens(flat, r.children)
                     THEN r.children[1]
                     ELSE TreeNodeOfChildren(r.children),
            i |-> r.i]

RECURSIVE ParseLoop(_, _, _, _, _)
\* the for loop of Parse
ParseLoop(tokens, i, results, flat, checked) ==
  IF i > Len(tokens) THEN [status |-> "ok", nodes |-> results]
  ELSE IF tokens[i] = <<"(">>
       THEN LET r == ParseTillRightParen(tokens, Incr(tokens, i), flat, checked)
            IN  IF r.status # "ok" THEN [status |-> r.status, nodes |-> <<>>]
                ELSE ParseLoop(tokens, Incr(tokens, r.i),
                               Append(results, r.node), flat, checked)
  ELSE ParseLoop(tokens, Incr(tokens, i),
                 Append(results, TreeNode(tokens[i])), flat, checked)

\* [status, nodes]: status "ok" when Parse returns the forest nodes
Parse(sexpr, flat, checked) ==
  ParseLoop(Tokenizer(RemoveComments(sexpr)), 1, <<>>, flat, checked)

ParseKIF(kif, checked) == Parse(kif, TRUE, checked)

-----------------------------------------------------------------------------
(* The Prolog encoder.  A rendering is [status |-> "ok", str |-> string],  *)
(* or [status |-> "abort"] when an assert of the code fails.               *)

\* printable ASCII, from code 32 on (the double quote, the backslash
\* and the backtick by name)
Ascii == <<" ","!","dquote","#","$","%","&","'","(",")","*","+",",","-",".","/",
           "0","1","2","3","4","5","6","7","8","9",":",";","<","=",">","?",
           "@","A","B","C","D","E","F","G","H","I","J","K","L","M","N","O",
           "P","Q","R","S","T","U","V","W","X","Y","Z","[","backslash","]","^","_",
           "backtick","a","b","c","d","e","f","g","h","i","j","k","l","m","n","o",
           "p","q","r","s","t","u","v","w","x","y","z","{","|","}","~">>

\* static_cast<int>(c) of an ASCII character
CharCode(c) ==
  CASE c = "\t" -> 9
    [] c = "\n" -> 10
    [] c = "\f" -> 12
    [] c = "\r" -> 13
    [] OTHER -> 31 + (CHOOSE i \in DOMAIN Ascii : Ascii[i] = c)

RECURSIVE IntToString(_)
\* operator<<(std::ostream&, int) of a natural number
IntToString(n) ==
  IF n < 10 THEN <<Digits[n + 1]>>
  ELSE IntToString(n \div 10) \o <<Digits[(n % 10) + 1]>>

\* the single quote character
Quote == Ascii[8]

RECURSIVE FilterVariableNameFrom(_, _)
FilterVariableNameFrom(base_name, i) ==
  IF i > Len(base_name) THEN <<>>
  ELSE (IF isalnum(base_name[i]) \/ base_name[i] = "_"
        THEN <<base_name[i]>>
        ELSE <<"_", "c">> \o IntToString(CharCode(base_name[i])) \o <<"_">>)
       \o FilterVariableNameFrom(base_name, i + 1)

FilterVariableName(base_name) == FilterVariableNameFrom(base_name, 1)

\* the bug of quoting and prefixing a variable like any atom
ConvertToPrologAtomQuoted(value, quotes_atoms, atom_prefix) ==
  LET atom == IF value # <<>> /\ value[1] = "?"
              THEN <<"_">> \o FilterVariableName(Tail(value))
              ELSE atom_prefix \o value
  IN  IF quotes_atoms THEN <<Quote>> \o atom \o <<Quote>> ELSE atom

ConvertToPrologAtom(value, quotes_atoms, atom_prefix) ==
  IF value # <<>> /\ value[1] = "?"
  THEN <<"_">> \o FilterVariableName(Tail(value))
  ELSE IF quotes_atoms
       THEN <<Quote>> \o atom_prefix \o value \o <<Quote>>
       ELSE atom_prefix \o value

ConvertToPrologFunctor(value, quotes_atoms, functor_prefix) ==
  IF quotes_atoms
  THEN <<Quote>> \o functor_prefix \o value \o <<Quote>>
  ELSE functor_prefix \o value

Abort == [status |-> "abort"]
Ok(str) == [status |-> "ok", str |-> str]

ToPrologAtom(node, quotes_atoms, atom_prefix) ==
  IF ~node.is_leaf THEN Abort
  ELSE Ok(ConvertToPrologAtom(node.value, quotes_atoms, atom_prefix))

ToPrologFunctor(node, quotes_atoms, functor_prefix) ==
  IF ~node.is_leaf THEN Abort
  ELSE IF node.value # <<>> /\ node.value[1] = "?" THEN Abort
  ELSE Ok(ConvertToPrologFunctor(node.value, quotes_atoms, functor_prefix))

RECURSIVE ToPrologTerm(_, _, _, _), ToPrologTermsFrom(_, _, _, _, _, _)

\* the loops of ToPrologTerm (first = 2) and of ToPrologClause (first = 3)
\* over the children from the i-th on, ", " before all but the first
ToPrologTermsFrom(children, first, i, quotes_atoms, functor_prefix, atom_prefix) ==
  IF i > Len(children) THEN Ok(<<>>)
  ELSE LET t == ToPrologTerm(children[i], quotes_atoms, functor_prefix, atom_prefix)
           rest == ToPrologTermsFrom(children, first, i + 1,
                                     quotes_atoms, functor_prefix, atom_prefix)
       IN  IF t.status # "ok" THEN Abort
           ELSE IF rest.status # "ok" THEN Abort
           ELSE Ok((IF i # first THEN <<",", " ">> ELSE <<>>) \o t.str \o rest.str)

ToPrologTerm(node, quotes_atoms, functor_prefix, atom_prefix) ==
  IF node.is_leaf THEN ToPrologAtom(node, quotes_atoms, atom_prefix)
  ELSE IF ~(Len(node.children) >= 2) THEN Abort
  ELSE IF ~node.children[1].is_leaf THEN Abort
  ELSE LET f == ToPrologFunctor(node.children[1], quotes_atoms, functor_prefix)
           args == ToPrologTermsFrom(node.children, 2, 2,
                                     quotes_atoms, functor_prefix, atom_prefix)
       IN  IF f.status # "ok" THEN Abort
           ELSE IF args.status # "ok" THEN Abort
           ELSE Ok(f.str \o <<"(">> \o args.str \o <<")">>)

\* the bug of writing the body of a rule that has none
HasHead(children) == Len(children) >= 2

\* the condition of line 208: the rule has a body
HasBody(children) == Len(children) >= 3

ToPrologClause(node, quotes_atoms, functor_prefix, atom_prefix) ==
  IF node.is_leaf
  THEN LET t == ToPrologTerm(node, quotes_atoms, functor_prefix, atom_prefix)
       IN  IF t.status # "ok" THEN Abort ELSE Ok(t.str \o <<".">>)
  ELSE IF node.children = <<>> THEN Abort
  ELSE IF ~node.children[1].is_leaf THEN Abort
  ELSE IF node.children[1].value = <<"<", "=">>
       THEN IF ~(Len(node.children) >= 2) THEN Abort
            ELSE LET head == ToPrologTerm(node.children[2], quotes_atoms,
                                          functor_prefix, atom_prefix)
                     body == ToPrologTermsFrom(node.children, 3, 3, quotes_atoms,
                                               functor_prefix, atom_prefix)
                 IN  IF head.status # "ok" THEN Abort
                     ELSE IF ~HasBody(node.children) THEN Ok(head.str \o <<".">>)
                     ELSE IF body.status # "ok" THEN Abort
                     ELSE Ok(head.str \o <<" ", ":", "-", " ">> \o body.str \o <<".">>)
       ELSE LET t == ToPrologTerm(node, quotes_atoms, functor_prefix, atom_prefix)
            IN  IF t.status # "ok" THEN Abort ELSE Ok(t.str \o <<".">>)

-----------------------------------------------------------------------------
(* The structural analyzer: CollectAtoms.  A collection is                 *)
(* [status |-> "ok", set |-> values], or [status |-> "abort"].  Line 229   *)
(* calls value_.front() without testing value_.empty(): on an empty value  *)
(* a standard library with assertions compiled in (hardened) aborts, one   *)
(* without reads the terminating null character.                           *)

RECURSIVE CollectAtoms(_, _), CollectAtomsFrom(_, _, _)

\* the loops over nodes of lines 241-244 and 570-573
CollectAtomsFrom(nodes, i, hardened) ==
  IF i > Len(nodes) THEN [status |-> "ok", set |-> {}]
  ELSE LET c == CollectAtoms(nodes[i], hardened)
           rest == CollectAtomsFrom(nodes, i + 1, hardened)
       IN  IF c.status # "ok" \/ rest.status # "ok" THEN Abort
           ELSE [status |-> "ok", set |-> c.set \cup rest.set]

\* the test of line 229 on a non-empty value
NotAtom(value) == value = <<"<", "=">> \/ value[1] = "?"

CollectAtoms(node, hardened) ==
  IF node.is_leaf
  THEN IF node.value = <<>>
       THEN IF hardened THEN Abort ELSE [status |-> "ok", set |-> {node.value}]
       ELSE IF NotAtom(node.value)
            THEN [status |-> "ok", set |-> {}]
            ELSE [status |-> "ok", set |-> {node.value}]
  ELSE IF ~(Len(node.children) >= 2) THEN Abort
  ELSE IF ~node.children[1].is_leaf THEN Abort
  ELSE CollectAtomsFrom(node.children, 1, hardened)

\* CollectAtoms(const std::vector<TreeNode>& nodes)
CollectAtomsOfNodes(nodes, hardened) == CollectAtomsFrom(nodes, 1, hardened)

-----------------------------------------------------------------------------
(* Atom substitution *)

\* the bug of storing the replacement as it is given
VerbatimLeaf(after) == [is_leaf |-> TRUE, value |-> after, children |-> <<>>]

\* the leaf ReplaceAtoms puts in the place of a leaf valued before
ReplacementLeaf(after) == TreeNode(after)

RECURSIVE ReplaceAtoms(_, _, _), ReplaceAtomsFrom(_, _, _, _),
          ReplaceAtomsReversed(_, _, _, _)

\* the bug of collecting the new nodes in reverse
ReplaceAtomsReversed(nodes, i, before, after) ==
  IF i > Len(nodes) THEN <<>>
  ELSE ReplaceAtomsReversed(nodes, i + 1, before, after)
       \o <<ReplaceAtoms(nodes[i], before, after)>>

\* the loops over nodes of lines 437-439 and 597-599
ReplaceAtomsFrom(nodes, i, before, after) ==
  IF i > Len(nodes) THEN <<>>
  ELSE <<ReplaceAtoms(nodes[i], before, after)>>
       \o ReplaceAtomsFrom(nodes, i + 1, before, after)

ReplaceAtoms(node, before, after) ==
  IF node.is_leaf
  THEN IF node.value = before THEN ReplacementLeaf(after) ELSE TreeNode(node.value)
  ELSE TreeNodeOfChildren(ReplaceAtomsFrom(node.children, 1, before, after))

\* ReplaceAtoms(const std::vector<TreeNode>& nodes, before, after)
ReplaceAtomsOfNodes(nodes, before, after) == ReplaceAtomsFrom(nodes, 1, before, after)

-----------------------------------------------------------------------------
(* The caller *)

None == [op |-> "none"]

RECURSIVE NodeCount(_), NodeCountAll(_, _)
NodeCountAll(nodes, i) ==
  IF i > Len(nodes) THEN 0 ELSE NodeCount(nodes[i]) + NodeCountAll(nodes, i + 1)
NodeCount(node) == 1 + NodeCountAll(node.children, 1)

Init ==
  /\ text = <<>>
  /\ forest = <<>>
  /\ out = None

\* the caller types one more piece of text
Type(w) ==
  /\ out = None
  /\ forest = <<>>
  /\ Len(text) < MaxText
  /\ text' = Append(text, w)
  /\ UNCHANGED <<forest, out>>

\* the characters of the pieces typed
RECURSIVE Flat(_)
Flat(pieces) == IF pieces = <<>> THEN <<>> ELSE Head(pieces) \o Flat(Tail(pieces))

\* forest = Parse(text, flat)
CallParse(flat, checked) ==
  /\ out = None
  /\ forest = <<>>
  /\ LET r == Parse(Flat(text), flat, checked)
     IN  /\ out' = [op |-> "Parse", sexpr |-> Flat(text), flat |-> flat,
                    status |-> r.status, nodes |-> r.nodes]
         /\ forest' = r.nodes
  /\ text' = <<>>

\* the caller is constructing nodes, and has called nothing yet
Building == text = <<>> /\ out = None

\* the caller holds a forest it has constructed or parsed
Holding == text = <<>> /\ out.op \in {"none", "Parse"}

\* forest.push_back(TreeNode(value))
MakeLeaf(value) ==
  /\ Building
  /\ NodeCountAll(forest, 1) < MaxNodes
  /\ forest' = Append(forest, TreeNode(value))
  /\ out' = None
  /\ UNCHANGED text

\* the last k nodes of the forest become the children of one new node
MakeCompound(k) ==
  /\ Building
  /\ k <= Len(forest)
  /\ NodeCountAll(forest, 1) <= MaxNodes
  /\ LET n == Len(forest) - k
     IN  forest' = Append(SubSeq(forest, 1, n),
                          TreeNodeOfChildren(SubSeq(forest, n + 1, Len(forest))))
  /\ out' = None
  /\ UNCHANGED text

\* the last k nodes of the forest become the head and the body of a rule:
\* TreeNode({TreeNode("<="), head, goal, ...})
MakeRule(k) ==
  /\ Building
  /\ 1 <= k /\ k <= Len(forest)
  /\ NodeCountAll(forest, 1) <= MaxNodes
  /\ LET n == Len(forest) - k
     IN  forest' = Append(SubSeq(forest, 1, n),
                          TreeNodeOfChildren(<<TreeNode(<<"<", "=">>)>>
                                             \o SubSeq(forest, n + 1, Len(forest))))
  /\ out' = None
  /\ UNCHANGED text

\* TreeNode(value), of a word in any case
CallTreeNode(value) ==
  /\ Building
  /\ forest = <<>>
  /\ out' = [op |-> "TreeNode", given |-> value, node |-> TreeNode(value)]
  /\ UNCHANGED <<text, forest>>

\* Parse(forest[i].ToSexpr())
CallToSexprParse(i, checked) ==
  /\ Holding
  /\ LET sexpr == ToSexpr(forest[i])
         r == Parse(sexpr, FALSE, checked)
     IN  out' = [op |-> "ToSexprParse", node |-> forest[i], sexpr |-> sexpr,
                 status |-> r.status, nodes |-> r.nodes]
  /\ UNCHANGED <<text, forest>>

\* Parse(TreeNode(value).ToSexpr())
CallLeafToSexprParse(value, checked) ==
  /\ Building
  /\ forest = <<>>
  /\ LET sexpr == ToSexpr(TreeNode(value))
         r == Parse(sexpr, FALSE, checked)
     IN  out' = [op |-> "ToSexprParse", node |-> TreeNode(value), sexpr |-> sexpr,
                 status |-> r.status, nodes |-> r.nodes]
  /\ UNCHANGED <<text, forest>>

\* ReplaceAtoms(forest, before, after)
CallReplaceAtoms(before, after) ==
  /\ Holding
  /\ out' = [op |-> "ReplaceAtoms", before |-> before, after |-> after,
             input |-> forest, nodes |-> ReplaceAtomsOfNodes(forest, before, after)]
  /\ UNCHANGED <<text, forest>>

\* forest[i].ToPrologClause(quotes_atoms, functor_prefix, atom_prefix)
CallToPrologClause(i, quotes_atoms, functor_prefix, atom_prefix) ==
  /\ Building
  /\ out' = [op |-> "ToPrologClause", node |-> forest[i],
             quotes_atoms |-> quotes_atoms, functor_prefix |-> functor_prefix,
             atom_prefix |-> atom_prefix,
             result |-> ToPrologClause(forest[i], quotes_atoms,
                                       functor_prefix, atom_prefix)]
  /\ UNCHANGED <<text, forest>>

\* TreeNode(value).ToPrologAtom(quotes_atoms, atom_prefix)
CallToPrologAtom(value, quotes_atoms, atom_prefix) ==
  /\ Building
  /\ forest = <<>>
  /\ out' = [op |-> "ToPrologAtom", node |-> TreeNode(value),
             quotes_atoms |-> quotes_atoms, atom_prefix |-> atom_prefix,
             result |-> ToPrologAtom(TreeNode(value), quotes_atoms, atom_prefix)]
  /\ UNCHANGED <<text, forest>>

\* CollectAtoms(forest)
CallCollectAtoms(hardened) ==
  /\ Building
  /\ out' = [op |-> "CollectAtoms", input |-> forest,
             result |-> CollectAtomsOfNodes(forest, hardened)]
  /\ UNCHANGED <<text, forest>>

\* RemoveComments(sexpr)
CallRemoveComments(sexpr) ==
  /\ Building
  /\ forest = <<>>
  /\ out' = [op |-> "RemoveComments", sexpr |-> sexpr, result |-> RemoveComments(sexpr)]
  /\ UNCHANGED <<text, forest>>

\* TreeNode(value).ToPrologAtom(...) and TreeNode(other).ToPrologAtom(...),
\* as ToPrologTerm renders two arguments of one clause
CallToPrologAtomOfTwo(value, other, quotes_atoms, atom_prefix) ==
  /\ Building
  /\ forest = <<>>
  /\ out' = [op |-> "ToPrologAtomOfTwo",
             nodes |-> <<TreeNode(value), TreeNode(other)>>,
             results |-> <<ToPrologAtom(TreeNode(value), quotes_atoms, atom_prefix),
                           ToPrologAtom(TreeNode(other), quotes_atoms, atom_prefix)>>]
  /\ UNCHANGED <<text, forest>>

Next ==
  \/ \E w \in TextPieces : Type(w)
  \/ \E flat \in BOOLEAN, checked \in BOOLEAN : CallParse(flat, checked)
  \/ \E value \in LeafValues : MakeLeaf(value)
  \/ \E k \in 0..MaxNodes : MakeCompound(k)
  \/ \E k \in 1..MaxNodes : MakeRule(k)
  \/ \E value \in SeqUpTo(CaseChars, MaxWord) : CallTreeNode(value)
  \/ \E i \in DOMAIN forest, checked \in BOOLEAN : CallToSexprParse(i, checked)
  \/ \E value \in SeqUpTo(SexprChars, MaxWord), checked \in BOOLEAN :
       CallLeafToSexprParse(value, checked)
  \/ \E before \in BeforeValues, after \in AfterValues :
       CallReplaceAtoms(before, after)
  \/ \E i \in DOMAIN forest, quotes_atoms \in BOOLEAN, prefix \in Prefixes :
       CallToPrologClause(i, quotes_atoms, prefix[1], prefix[2])
  \/ \E value \in SeqUpTo(AtomChars, MaxWord), quotes_atoms \in BOOLEAN,
        atom_prefix \in AtomPrefixes :
       CallToPrologAtom(value, quotes_atoms, atom_prefix)
  \/ \E hardened \in BOOLEAN : CallCollectAtoms(hardened)
  \/ \E sexpr \in SeqUpTo(CommentChars, MaxLine) : CallRemoveComments(sexpr)
  \/ \E value \in VariableNames, other \in VariableNames,
        quotes_atoms \in BOOLEAN, atom_prefix \in AtomPrefixes :
       CallToPrologAtomOfTwo(value, other, quotes_atoms, atom_prefix)

Spec == Init /\ [][Next]_vars

-----------------------------------------------------------------------------
(* What the claims speak of, stated without the operators of the code *)

\* the tokens Parse reads from a text
TokensOf(sexpr) == Tokenizer(RemoveComments(sexpr))

RECURSIVE OpenAfter(_, _, _), ClosesAtTop(_, _, _)
\* the number of "(" still open after the tokens from the i-th on,
\* depth of them being open before
OpenAfter(tokens, i, depth) ==
  IF i > Len(tokens) THEN depth
  ELSE IF tokens[i] = <<"(">> THEN OpenAfter(tokens, i + 1, depth + 1)
  ELSE IF tokens[i] = <<")">> /\ depth > 0 THEN OpenAfter(tokens, i + 1, depth - 1)
  ELSE OpenAfter(tokens, i + 1, depth)

\* some ")" from the i-th token on has no "(" to match
ClosesAtTop(tokens, i, depth) ==
  IF i > Len(tokens) THEN FALSE
  ELSE IF tokens[i] = <<"(">> THEN ClosesAtTop(tokens, i + 1, depth + 1)
  ELSE IF tokens[i] = <<")">>
       THEN depth = 0 \/ ClosesAtTop(tokens, i + 1, depth - 1)
  ELSE ClosesAtTop(tokens, i + 1, depth)

Unclosed(sexpr) == OpenAfter(TokensOf(sexpr), 1, 0) > 0
UnmatchedClose(sexpr) == ClosesAtTop(TokensOf(sexpr), 1, 0)
Balanced(sexpr) == ~Unclosed(sexpr) /\ ~UnmatchedClose(sexpr)

RECURSIVE LeafValuesOf(_), SameShape(_, _), LeafPairs(_, _), Compounds(_)
\* the values of the leaves of a node
LeafValuesOf(node) ==
  IF node.is_leaf THEN {node.value}
  ELSE UNION { LeafValuesOf(node.children[i]) : i \in DOMAIN node.children }

LeafValuesOfNodes(nodes) == UNION { LeafValuesOf(nodes[i]) : i \in DOMAIN nodes }

\* the compound nodes of a node, itself included
Compounds(node) ==
  IF node.is_leaf THEN {}
  ELSE {node} \cup UNION { Compounds(node.children[i]) : i \in DOMAIN node.children }

CompoundsOfNodes(nodes) == UNION { Compounds(nodes[i]) : i \in DOMAIN nodes }

\* the same kind and number of children at every position
SameShape(a, b) ==
  /\ a.is_leaf = b.is_leaf
  /\ Len(a.children) = Len(b.children)
  /\ \A i \in DOMAIN a.children : SameShape(a.children[i], b.children[i])

\* <<value in a, value in b>> of the leaves at the same position of two
\* nodes of the same shape
LeafPairs(a, b) ==
  IF a.is_leaf THEN { <<a.value, b.value>> }
  ELSE UNION { LeafPairs(a.children[i], b.children[i]) : i \in DOMAIN a.children }

LeafPairsOfNodes(as, bs) == UNION { LeafPairs(as[i], bs[i]) : i \in DOMAIN as }

\* two characters that are the same letter in either case, or the same character
SameLetter(c, d) ==
  \/ c = d
  \/ \E i \in DOMAIN UpperCase : {c, d} = {UpperCase[i], LowerCase[i]}

EqualIgnoringCase(v, w) ==
  Len(v) = Len(w) /\ \A i \in DOMAIN v : SameLetter(v[i], w[i])

\* the value a leaf given v is to store
Normalized(v) ==
  IF \E w \in reserved_words : EqualIgnoringCase(v, w)
  THEN CHOOSE w \in reserved_words : EqualIgnoringCase(v, w)
  ELSE v

RECURSIVE JoinWith(_, _), Concat(_)
\* the strings of a sequence, sep between two of them
JoinWith(strs, sep) ==
  IF strs = <<>> THEN <<>>
  ELSE IF Len(strs) = 1 THEN strs[1]
  ELSE strs[1] \o sep \o JoinWith(Tail(strs), sep)

Concat(strs) == JoinWith(strs, <<>>)

\* every node of the forest the caller holds and of the last call's result
NodesInState ==
  { forest[i] : i \in DOMAIN forest }
  \cup (IF out.op \in {"Parse", "ToSexprParse", "ReplaceAtoms", "ToPrologAtomOfTwo"}
        THEN { out.nodes[i] : i \in DOMAIN out.nodes } ELSE {})
  \cup (IF out.op \in {"TreeNode", "ToSexprParse", "ToPrologAtom", "ToPrologClause"}
        THEN {out.node} ELSE {})

-----------------------------------------------------------------------------
(* C1 *)

Whitespace == {" ", "\n", "\t", "\r", "\f"}

NoParenNoSpace(node) ==
  \A v \in LeafValuesOf(node) : \A i \in DOMAIN v : v[i] \notin {"(", ")"} \cup Whitespace

\* C1 as claimed: a node whose leaf values hold no parenthesis and no
\* whitespace is the one node of Parse(ToSexpr(node), false).
C1_RoundTripOfAnyNode ==
  (out.op = "ToSexprParse" /\ NoParenNoSpace(out.node))
    => (out.status = "ok" /\ out.nodes = <<out.node>>)

\* C1 as amended: a node whose leaf values are not empty and hold no
\* parenthesis, no whitespace and no ";" is the one node of
\* Parse(ToSexpr(node), false).
C1_RoundTrip ==
  (/\ out.op = "ToSexprParse"
   /\ NoParenNoSpace(out.node)
   /\ \A v \in LeafValuesOf(out.node) : v # <<>> /\ \A i \in DOMAIN v : v[i] # ";")
    => (out.status = "ok" /\ out.nodes = <<out.node>>)

\* a compound of two or more children, one of them a compound, came back
C1_Witness ==
  /\ out.op = "ToSexprParse"
  /\ ~out.node.is_leaf
  /\ Len(out.node.children) >= 2
  /\ \E i \in DOMAIN out.node.children : ~out.node.children[i].is_leaf
  /\ \A v \in LeafValuesOf(out.node) : v # <<>>
  /\ out.nodes = <<out.node>>

-----------------------------------------------------------------------------
(* C2 *)

\* C2 as claimed: Parse of a text in which a "(" is never closed does not
\* return.
C2_UnclosedParenIsFatal ==
  (out.op = "Parse" /\ Unclosed(out.sexpr)) => out.status # "ok"

-----------------------------------------------------------------------------
(* C3 *)

\* C3 as claimed: Parse of a text with a ")" that closes nothing does not
\* return, and no forest Parse returns has a leaf valued ")".
C3_UnmatchedCloseIsFatal ==
  out.op = "Parse" =>
    /\ UnmatchedClose(out.sexpr) => out.status # "ok"
    /\ out.status = "ok" => <<")">> \notin LeafValuesOfNodes(out.nodes)

-----------------------------------------------------------------------------
(* C4 *)

RECURSIVE FlattenedNode(_), FlattenedNodes(_)
\* a node with every compound of one child replaced by that child, from
\* the leaves up
FlattenedNode(node) ==
  IF node.is_leaf THEN node
  ELSE LET children == FlattenedNodes(node.children)
       IN  IF Len(children) = 1 THEN children[1]
           ELSE [is_leaf |-> FALSE, value |-> <<>>, children |-> children]

FlattenedNodes(nodes) ==
  IF nodes = <<>> THEN <<>>
  ELSE <<FlattenedNode(Head(nodes))>> \o FlattenedNodes(Tail(nodes))

\* C4: on a balanced text, Parse(text, true), which is ParseKIF(text), is
\* Parse(text, false) with every compound of one child replaced by that
\* child from the leaves up, and holds no compound of exactly one child.
C4_Flattening ==
  (out.op = "Parse" /\ out.flat /\ Balanced(out.sexpr)) =>
    /\ out.status = "ok"
    /\ out.nodes = FlattenedNodes(Parse(out.sexpr, FALSE, TRUE).nodes)
    /\ ParseKIF(out.sexpr, TRUE).nodes = out.nodes
    /\ \A c \in CompoundsOfNodes(out.nodes) : Len(c.children) # 1

\* a tuple of one child inside a tuple of one child was flattened to the
\* leaf inside
C4_Witness ==
  /\ out.op = "Parse" /\ out.flat /\ Balanced(out.sexpr) /\ out.status = "ok"
  /\ \E c \in CompoundsOfNodes(Parse(out.sexpr, FALSE, TRUE).nodes) :
       Len(c.children) = 1 /\ ~c.children[1].is_leaf
         /\ Len(c.children[1].children) = 1
  /\ Len(out.nodes) = 1 /\ out.nodes[1].is_leaf

-----------------------------------------------------------------------------
(* C5 *)

RECURSIVE LeavesInOrder(_), LeavesOfNodesInOrder(_), NormalizedWords(_)
\* the leaf values of a node, left to right
LeavesInOrder(node) ==
  IF node.is_leaf THEN <<node.value>> ELSE LeavesOfNodesInOrder(node.children)

LeavesOfNodesInOrder(nodes) ==
  IF nodes = <<>> THEN <<>>
  ELSE LeavesInOrder(Head(nodes)) \o LeavesOfNodesInOrder(Tail(nodes))

\* the values the words among the tokens are to be stored as
NormalizedWords(tokens) ==
  IF tokens = <<>> THEN <<>>
  ELSE (IF Head(tokens) \in {<<"(">>, <<")">>} THEN <<>>
        ELSE <<Normalized(Head(tokens))>>) \o NormalizedWords(Tail(tokens))

\* C5: every leaf made by a leaf construction, a compound construction,
\* Parse or ReplaceAtoms stores a reserved word in lower case, whatever the
\* case it was given in, and any other value as given.
C5_ReservedWordsLowered ==
  /\ \A node \in NodesInState : \A v \in LeafValuesOf(node) : v = Normalized(v)
  /\ out.op = "TreeNode" => out.node.value = Normalized(out.given)
  /\ (out.op = "Parse" /\ out.status = "ok" /\ Balanced(out.sexpr)) =>
       LeavesOfNodesInOrder(out.nodes) = NormalizedWords(TokensOf(out.sexpr))

\* a leaf was given a reserved word in another case
C5_Witness ==
  /\ out.op = "TreeNode"
  /\ out.given # out.node.value
  /\ out.node.value \in reserved_words

-----------------------------------------------------------------------------
(* C6 *)

\* C6 as claimed: the leaf ReplaceAtoms puts in the place of a leaf valued
\* before has the value after, as given.
C6_ReplacementVerbatim ==
  out.op = "ReplaceAtoms" =>
    \A p \in LeafPairsOfNodes(out.input, out.nodes) :
      p[1] = out.before => p[2] = out.after

\* C6 as amended: the leaf ReplaceAtoms puts in the place of a leaf valued
\* before has the value after, in lower case when after is a reserved word
\* in any case.
C6_ReplacementNormalized ==
  out.op = "ReplaceAtoms" =>
    \A p \in LeafPairsOfNodes(out.input, out.nodes) :
      p[1] = out.before => p[2] = Normalized(out.after)

\* a leaf was replaced by a reserved word given in upper case
C6_Witness ==
  /\ out.op = "ReplaceAtoms"
  /\ out.after # Normalized(out.after)
  /\ \E p \in LeafPairsOfNodes(out.input, out.nodes) : p[1] = out.before

-----------------------------------------------------------------------------
(* C7 *)

\* C7: ReplaceAtoms returns as many nodes as it is given, each of the shape
\* of the node it is made from, with every leaf not valued before as it
\* was, and leaves the forest it is given as it was.
C7_ReplaceAtomsFrame ==
  out.op = "ReplaceAtoms" =>
    /\ Len(out.nodes) = Len(out.input)
    /\ \A i \in DOMAIN out.input : SameShape(out.input[i], out.nodes[i])
    /\ \A p \in LeafPairsOfNodes(out.input, out.nodes) :
         p[1] # out.before => p[2] = p[1]
    /\ forest = out.input

\* a compound with a leaf that was replaced and a leaf that was not
C7_Witness ==
  /\ out.op = "ReplaceAtoms"
  /\ \E i \in DOMAIN out.input :
       /\ ~out.input[i].is_leaf
       /\ \E p, q \in LeafPairs(out.input[i], out.nodes[i]) :
            p[1] = out.before /\ p[2] # p[1] /\ q[1] # out.before

-----------------------------------------------------------------------------
(* C8 *)

\* TermOf under the arguments of the last call
TermOfLast(node) ==
  ToPrologTerm(node, out.quotes_atoms, out.functor_prefix, out.atom_prefix)

IsRule(node) ==
  /\ ~node.is_leaf
  /\ Len(node.children) >= 2
  /\ node.children[1].is_leaf
  /\ node.children[1].value = <<"<", "=">>

\* C8: a rule (first child "<=", two or more children) whose head and goals
\* have terms renders as the head's term, then " :- " and the goals' terms
\* joined by ", " when there are goals, then "."; a leaf and a compound that
\* is no rule render as their term and ".".
C8_ClauseRendering ==
  out.op = "ToPrologClause" =>
    LET node == out.node
        terms == [i \in 1..(Len(node.children) - 1) |-> TermOfLast(node.children[i + 1])]
    IN  IF IsRule(node)
        THEN (\A i \in DOMAIN terms : terms[i].status = "ok") =>
               /\ out.result.status = "ok"
               /\ out.result.str =
                    terms[1].str
                    \o (IF Len(terms) >= 2
                        THEN <<" ", ":", "-", " ">>
                             \o JoinWith([i \in 1..(Len(terms) - 1) |-> terms[i + 1].str],
                                         <<",", " ">>)
                        ELSE <<>>)
                    \o <<".">>
        ELSE IF TermOfLast(node).status = "ok"
             THEN /\ out.result.status = "ok"
                  /\ out.result.str = TermOfLast(node).str \o <<".">>
             ELSE out.result.status = "abort"

\* a rule of a head and two goals was rendered
C8_Witness ==
  /\ out.op = "ToPrologClause"
  /\ IsRule(out.node)
  /\ Len(out.node.children) >= 4
  /\ out.result.status = "ok"

-----------------------------------------------------------------------------
(* C9 *)

\* what a character of a variable's name is written as
EncodedChar(c) ==
  CASE c = "+" -> <<"_", "c", "4", "3", "_">>
    [] c = "?" -> <<"_", "c", "6", "3", "_">>
    [] c = "v" -> <<"v">>
    [] c = "_" -> <<"_">>

\* C9: a variable leaf renders as "_" and its name without the "?", each
\* character that is no letter, digit or "_" written as _c<code>_, whatever
\* quotes_atoms and atom_prefix are; any other leaf renders as atom_prefix
\* and its value, in single quotes when quotes_atoms.
C9_VariableEncoding ==
  out.op = "ToPrologAtom" =>
    LET v == out.node.value
    IN  /\ out.result.status = "ok"
        /\ out.result.str =
             IF v # <<>> /\ v[1] = "?"
             THEN <<"_">> \o Concat([i \in 1..(Len(v) - 1) |-> EncodedChar(v[i + 1])])
             ELSE IF out.quotes_atoms
                  THEN <<Quote>> \o out.atom_prefix \o v \o <<Quote>>
                  ELSE out.atom_prefix \o v

\* a variable with a "+" in its name was rendered with quotes and a prefix
C9_Witness ==
  /\ out.op = "ToPrologAtom"
  /\ out.node.value = <<"?", "v", "+">>
  /\ out.quotes_atoms
  /\ out.atom_prefix # <<>>
  /\ out.result.str = <<"_", "v", "_", "c", "4", "3", "_">>

-----------------------------------------------------------------------------
(* C10 *)

\* every compound has two or more children, the first a leaf
WellFormed(nodes) ==
  \A c \in CompoundsOfNodes(nodes) : Len(c.children) >= 2 /\ c.children[1].is_leaf

\* the values CollectAtoms is to return
AtomsOf(nodes) ==
  { v \in LeafValuesOfNodes(nodes) : v # <<"<", "=">> /\ ~(v # <<>> /\ v[1] = "?") }

\* C10 as claimed: on a forest whose compounds have two or more children and
\* a leaf first, CollectAtoms returns the values of the leaves that are not
\* "<=" and do not start with "?".
C10_CollectAtoms ==
  (out.op = "CollectAtoms" /\ WellFormed(out.input)) =>
    (out.result.status = "ok" /\ out.result.set = AtomsOf(out.input))

-----------------------------------------------------------------------------
(* The structural analyzer.  A std::unordered_map is a function on its     *)
(* keys, a std::unordered_set a set, an ArgPos the pair <<functor, pos>>.  *)
(* A result is [status |-> "ok", ...], or [status |-> "abort"] when an     *)
(* assert of the code fails.                                               *)

\* the bug of letting an entry inserted later replace the one in the map
InsertOverwriting(values, other) ==
  [k \in DOMAIN values \cup DOMAIN other |->
     IF k \in DOMAIN other THEN other[k] ELSE values[k]]

\* values.insert(other.begin(), other.end()) and values.emplace(k, v) of a
\* std::unordered_map: a key the map holds keeps its entry
Insert(values, other) ==
  [k \in DOMAIN values \cup DOMAIN other |->
     IF k \in DOMAIN values THEN values[k] ELSE other[k]]

\* std::unordered_map<...>()
EmptyMap == [k \in {} |-> 0]

\* the map of one entry
Entry(key, value) == [k \in {key} |-> value]

\* the compound's own asserts: two or more children, the first a leaf
IsTerm(node) == Len(node.children) >= 2 /\ node.children[1].is_leaf

RECURSIVE CollectNonFunctorAtoms(_, _), CollectNonFunctorAtomsFrom(_, _, _)

\* the loops of CollectNonFunctorAtoms over the children from the i-th on
\* and over the nodes of a forest
CollectNonFunctorAtomsFrom(nodes, i, hardened) ==
  IF i > Len(nodes) THEN [status |-> "ok", set |-> {}]
  ELSE LET c == CollectNonFunctorAtoms(nodes[i], hardened)
           rest == CollectNonFunctorAtomsFrom(nodes, i + 1, hardened)
       IN  IF c.status # "ok" \/ rest.status # "ok" THEN Abort
           ELSE [status |-> "ok", set |-> c.set \cup rest.set]

CollectNonFunctorAtoms(node, hardened) ==
  IF node.is_leaf
  THEN IF node.value = <<>>
       THEN IF hardened THEN Abort ELSE [status |-> "ok", set |-> {node.value}]
       ELSE IF NotAtom(node.value)
            THEN [status |-> "ok", set |-> {}]
            ELSE [status |-> "ok", set |-> {node.value}]
  ELSE IF ~IsTerm(node) THEN Abort
  ELSE CollectNonFunctorAtomsFrom(node.children, 2, hardened)

\* CollectNonFunctorAtoms(const std::vector<TreeNode>& nodes)
CollectNonFunctorAtomsOfNodes(nodes, hardened) ==
  CollectNonFunctorAtomsFrom(nodes, 1, hardened)

RECURSIVE CollectFunctorAtoms(_), CollectFunctorAtomsFrom(_, _, _, _)

\* the loops of CollectFunctorAtoms over the children from the i-th on
\* (compounds_only) and over the nodes of a forest, values being the map
\* so far
CollectFunctorAtomsFrom(nodes, i, values, compounds_only) ==
  IF i > Len(nodes) THEN [status |-> "ok", map |-> values]
  ELSE IF compounds_only /\ nodes[i].is_leaf
       THEN CollectFunctorAtomsFrom(nodes, i + 1, values, compounds_only)
  ELSE LET c == CollectFunctorAtoms(nodes[i])
       IN  IF c.status # "ok" THEN Abort
           ELSE CollectFunctorAtomsFrom(nodes, i + 1, Insert(values, c.map),
                                        compounds_only)

CollectFunctorAtoms(node) ==
  IF node.is_leaf THEN [status |-> "ok", map |-> EmptyMap]
  ELSE IF ~IsTerm(node) THEN Abort
  ELSE LET functor == node.children[1].value
           values == IF functor # <<"<", "=">>
                     THEN Insert(EmptyMap, Entry(functor, Len(node.children) - 1))
                     ELSE EmptyMap
       IN  CollectFunctorAtomsFrom(node.children, 2, values, TRUE)

\* CollectFunctorAtoms(const std::vector<TreeNode>& nodes)
CollectFunctorAtomsOfNodes(nodes) ==
  CollectFunctorAtomsFrom(nodes, 1, EmptyMap, FALSE)

-----------------------------------------------------------------------------
(* Variable positions and same-domain pairs *)

\* the union, key by key, the code makes of two maps to sets of ArgPos
\* (values.at(k).insert(...) for a key it holds, values.insert(t) otherwise)
MergeArgs(values, other) ==
  [k \in DOMAIN values \cup DOMAIN other |->
     (IF k \in DOMAIN values THEN values[k] ELSE {})
     \cup (IF k \in DOMAIN other THEN other[k] ELSE {})]

RECURSIVE CollectVariableArgs(_), CollectVariableArgsFrom(_, _, _)

\* the loop of CollectVariableArgs over the children from the i-th on; the
\* position of the i-th child is its distance from the functor, i - 1
CollectVariableArgsFrom(node, i, values) ==
  IF i > Len(node.children) THEN [status |-> "ok", map |-> values]
  ELSE LET child == node.children[i]
           functor == node.children[1].value
       IN  IF child.is_leaf
           THEN IF IsVariable(child)
                THEN CollectVariableArgsFrom(node, i + 1,
                       MergeArgs(values, Entry(child.value, {<<functor, i - 1>>})))
                ELSE CollectVariableArgsFrom(node, i + 1, values)
           ELSE LET tmp == CollectVariableArgs(child)
                IN  IF tmp.status # "ok" THEN Abort
                    ELSE CollectVariableArgsFrom(node, i + 1,
                                                 MergeArgs(values, tmp.map))

CollectVariableArgs(node) ==
  IF node.is_leaf THEN Abort
  ELSE IF ~IsTerm(node) THEN Abort
  ELSE CollectVariableArgsFrom(node, 2, EmptyMap)

RECURSIVE StringLess(_, _)
\* operator< of two std::string
StringLess(s, t) ==
  IF t = <<>> THEN FALSE
  ELSE IF s = <<>> THEN TRUE
  ELSE IF s[1] # t[1] THEN CharCode(s[1]) < CharCode(t[1])
  ELSE StringLess(Tail(s), Tail(t))

\* the comparison std::sort is given: by functor, then by position
ArgPosLess(p, q) ==
  IF p[1] = q[1] THEN p[2] < q[2] ELSE StringLess(p[1], q[1])

RECURSIVE Sorted(_)
\* std::sort of a set of ArgPos
Sorted(positions) ==
  IF positions = {} THEN <<>>
  ELSE LET least == CHOOSE p \in positions :
                      \A q \in positions \ {p} : ArgPosLess(p, q)
       IN  <<least>> \o Sorted(positions \ {least})

\* the bug of pairing only neighbours of the sorted positions
NeighbourPairs(sorted_positions) ==
  { <<sorted_positions[i], sorted_positions[i + 1]>> :
      i \in 1..(Len(sorted_positions) - 1) }

\* the two loops over sorted_positions: i before j
PairsOf(sorted_positions) ==
  { <<sorted_positions[ij[1]], sorted_positions[ij[2]]>> :
      ij \in { ij \in (DOMAIN sorted_positions) \X (DOMAIN sorted_positions) :
                 ij[1] < ij[2] } }

\* VariableArgPosToArgPosPairs(variable_args)
VariableArgPosToArgPosPairsOf(variable_args) ==
  UNION { IF Cardinality(variable_args[v]) = 1 THEN {}
          ELSE PairsOf(Sorted(variable_args[v])) : v \in DOMAIN variable_args }

\* the bug of putting the body's position first
VariableArgPosToArgPosPairsSwapped(head_variable_args, body_variable_args) ==
  UNION { { <<body_pos, head_pos>> :
              head_pos \in head_variable_args[v], body_pos \in body_variable_args[v] } :
          v \in DOMAIN head_variable_args \cap DOMAIN body_variable_args }

\* VariableArgPosToArgPosPairs(head_variable_args, body_variable_args)
VariableArgPosToArgPosPairs(head_variable_args, body_variable_args) ==
  UNION { { <<head_pos, body_pos>> :
              head_pos \in head_variable_args[v], body_pos \in body_variable_args[v] } :
          v \in DOMAIN head_variable_args \cap DOMAIN body_variable_args }

RECURSIVE BodyVariableArgs(_, _, _)
\* the loop both collectors run over the goals, children from the i-th on
BodyVariableArgs(children, i, values) ==
  IF i > Len(children) THEN [status |-> "ok", map |-> values]
  ELSE IF children[i].is_leaf THEN BodyVariableArgs(children, i + 1, values)
  ELSE LET tmp == CollectVariableArgs(children[i])
       IN  IF tmp.status # "ok" THEN Abort
           ELSE BodyVariableArgs(children, i + 1, MergeArgs(values, tmp.map))

\* the four asserts both collectors start with
IsRuleNode(node) ==
  /\ ~node.is_leaf
  /\ IsTerm(node)
  /\ node.children[1].value = <<"<", "=">>

CollectSameDomainArgsBetweenHeadAndBody(node) ==
  IF ~IsRuleNode(node) THEN Abort
  ELSE IF Len(node.children) = 2 THEN [status |-> "ok", set |-> {}]
  ELSE IF node.children[2].is_leaf THEN [status |-> "ok", set |-> {}]
  ELSE LET head_variable_args == CollectVariableArgs(node.children[2])
           body_variable_args == BodyVariableArgs(node.children, 3, EmptyMap)
       IN  IF head_variable_args.status # "ok" \/ body_variable_args.status # "ok"
           THEN Abort
           ELSE [status |-> "ok",
                 set |-> VariableArgPosToArgPosPairs(head_variable_args.map,
                                                     body_variable_args.map)]

CollectSameDomainArgsInBody(node) ==
  IF ~IsRuleNode(node) THEN Abort
  ELSE LET variable_args == BodyVariableArgs(node.children, 3, EmptyMap)
       IN  IF variable_args.status # "ok" THEN Abort
           ELSE [status |-> "ok",
                 set |-> VariableArgPosToArgPosPairsOf(variable_args.map)]

-----------------------------------------------------------------------------
(* GeneratePrologHelperClauses.  The clauses are written in the order the  *)
(* unordered containers are iterated in, which the code does not fix: the  *)
(* output is the set of its lines, each ended by std::endl.                *)

\* the characters of a string literal of the code
user_defined_functor ==
  <<"u","s","e","r","_","d","e","f","i","n","e","d","_","f","u","n","c","t","o","r">>
connected_args == <<"c","o","n","n","e","c","t","e","d","_","a","r","g","s">>
equivalent_args == <<"e","q","u","i","v","a","l","e","n","t","_","a","r","g","s">>

\* o << name << "(" << functor_atom1 << ", " << pos1 << ", " << functor_atom2
\*   << ", " << pos2 << ")." << std::endl
ArgsClause(name, pair, quotes_atoms, functor_prefix) ==
  name \o <<"(">>
  \o ConvertToPrologFunctor(pair[1][1], quotes_atoms, functor_prefix)
  \o <<",", " ">> \o IntToString(pair[1][2]) \o <<",", " ">>
  \o ConvertToPrologFunctor(pair[2][1], quotes_atoms, functor_prefix)
  \o <<",", " ">> \o IntToString(pair[2][2]) \o <<")", ".", "\n">>

\* o << "user_defined_functor(" << functor_atom << ", " << arity << ")." << std::endl
FunctorClause(functor, arity, quotes_atoms, functor_prefix) ==
  user_defined_functor \o <<"(">>
  \o ConvertToPrologFunctor(functor, quotes_atoms, functor_prefix)
  \o <<",", " ">> \o IntToString(arity) \o <<")", ".", "\n">>

RECURSIVE SameDomainArgsFrom(_, _, _, _)
\* the loop over the nodes that fills the two sets of pairs
SameDomainArgsFrom(nodes, i, in_body, between_head_and_body) ==
  IF i > Len(nodes)
  THEN [status |-> "ok", in_body |-> in_body,
        between_head_and_body |-> between_head_and_body]
  ELSE IF ~nodes[i].is_leaf /\ nodes[i].children[1].value = <<"<", "=">>
       THEN LET b == CollectSameDomainArgsInBody(nodes[i])
                h == CollectSameDomainArgsBetweenHeadAndBody(nodes[i])
            IN  IF b.status # "ok" \/ h.status # "ok" THEN Abort
                ELSE SameDomainArgsFrom(nodes, i + 1, in_body \cup b.set,
                                        between_head_and_body \cup h.set)
       ELSE SameDomainArgsFrom(nodes, i + 1, in_body, between_head_and_body)

GeneratePrologHelperClauses(nodes, quotes_atoms, functor_prefix, atom_prefix) ==
  LET functors == CollectFunctorAtomsOfNodes(nodes)
  IN  IF functors.status # "ok" THEN Abort
      ELSE LET pairs == SameDomainArgsFrom(nodes, 1, {}, {})
           IN  IF pairs.status # "ok" THEN Abort
               ELSE [status |-> "ok",
                     lines |->
                       { FunctorClause(f, functors.map[f], quotes_atoms, functor_prefix) :
                           f \in DOMAIN functors.map \ reserved_words }
                       \cup { ArgsClause(connected_args, pair, quotes_atoms, functor_prefix) :
                                pair \in pairs.in_body \ pairs.between_head_and_body }
                       \cup { ArgsClause(equivalent_args, pair, quotes_atoms, functor_prefix) :
                                pair \in pairs.between_head_and_body }]

-----------------------------------------------------------------------------
(* The forests a caller hands to the analyzer: one rule, or one or two     *)
(* facts                                                                   *)

\* the most arguments of a compound
MaxArity == 2
\* the most goals in the body of a rule
MaxGoals == 2

\* the compounds of a functor of functors and 1 to n arguments of args
Terms(functors, args, n) ==
  { TreeNodeOfChildren(<<TreeNode(f)>> \o as) :
      f \in functors, as \in UNION { [1..k -> args] : k \in 1..n } }

Variables == { <<"?", "x">>, <<"?", "y">> }
RuleFunctors == { <<"f">>, <<"g">> }
RuleArgs == { TreeNode(v) : v \in Variables }

\* a head or a goal: a leaf, a compound of variables, a compound of one
\* compound of one variable
Goals ==
  {TreeNode(<<"a">>)}
  \cup Terms(RuleFunctors, RuleArgs, MaxArity)
  \cup Terms(RuleFunctors, Terms(RuleFunctors, RuleArgs, 1), 1)

Rules ==
  { TreeNodeOfChildren(<<TreeNode(<<"<", "=">>), head>> \o body) :
      head \in Goals, body \in SeqUpTo(Goals, MaxGoals) }

FactFunctors == { <<"f">>, <<"?", "x">> }
FactArgs == { TreeNode(<<"a">>), TreeNode(<<"?", "x">>) }

\* a fact: a leaf, a compound of leaves (its functor a variable or not), a
\* compound f with compounds f of other arities among its arguments
Facts ==
  {TreeNode(<<"a">>)}
  \cup Terms(FactFunctors, FactArgs, MaxArity)
  \cup Terms({<<"f">>},
            {TreeNode(<<"a">>)} \cup Terms({<<"f">>}, {TreeNode(<<"a">>)}, MaxArity),
            MaxArity)

AnalyzedForests ==
  { <<rule>> : rule \in Rules } \cup { <<fact>> : fact \in Facts }
  \cup { <<fact, other>> : fact \in Facts, other \in Facts }

AnalysisInit ==
  /\ text = <<>>
  /\ forest \in AnalyzedForests
  /\ out = None

\* CollectAtoms(forest), CollectNonFunctorAtoms(forest) and
\* CollectFunctorAtoms(forest), as the tests call them on one forest
CallCollectors(hardened) ==
  /\ out = None
  /\ out' = [op |-> "Collectors", input |-> forest,
             atoms |-> CollectAtomsOfNodes(forest, hardened),
             non_functor_atoms |-> CollectNonFunctorAtomsOfNodes(forest, hardened),
             functor_atoms |-> CollectFunctorAtomsOfNodes(forest)]
  /\ UNCHANGED <<text, forest>>

\* forest[i].CollectSameDomainArgsInBody()
CallCollectSameDomainArgsInBody(i) ==
  /\ out = None
  /\ out' = [op |-> "CollectSameDomainArgsInBody", node |-> forest[i],
             result |-> CollectSameDomainArgsInBody(forest[i])]
  /\ UNCHANGED <<text, forest>>

\* forest[i].CollectSameDomainArgsBetweenHeadAndBody()
CallCollectSameDomainArgsBetweenHeadAndBody(i) ==
  /\ out = None
  /\ out' = [op |-> "CollectSameDomainArgsBetweenHeadAndBody", node |-> forest[i],
             result |-> CollectSameDomainArgsBetweenHeadAndBody(forest[i])]
  /\ UNCHANGED <<text, forest>>

\* GeneratePrologHelperClauses(forest, quotes_atoms, functor_prefix, atom_prefix),
\* as ToProlog calls it when adds_helper_clauses
CallGeneratePrologHelperClauses(quotes_atoms, functor_prefix, atom_prefix) ==
  /\ out = None
  /\ out' = [op |-> "GeneratePrologHelperClauses", input |-> forest,
             quotes_atoms |-> quotes_atoms, functor_prefix |-> functor_prefix,
             result |-> GeneratePrologHelperClauses(forest, quotes_atoms,
                                                    functor_prefix, atom_prefix)]
  /\ UNCHANGED <<text, forest>>

AnalysisNext ==
  \/ \E hardened \in BOOLEAN : CallCollectors(hardened)
  \/ \E i \in DOMAIN forest : CallCollectSameDomainArgsInBody(i)
  \/ \E i \in DOMAIN forest : CallCollectSameDomainArgsBetweenHeadAndBody(i)
  \/ \E quotes_atoms \in BOOLEAN, prefix \in Prefixes :
       CallGeneratePrologHelperClauses(quotes_atoms, prefix[1], prefix[2])

AnalysisSpec == AnalysisInit /\ [][AnalysisNext]_vars

-----------------------------------------------------------------------------
(* What the claims on the analyzer speak of *)

RECURSIVE FunctorsInOrder(_), FunctorsOfNodesInOrder(_)
\* <<name, child count minus 1>> of the compounds of a node that are not
\* headed by "<=": a compound before its arguments, arguments left to right
FunctorsInOrder(node) ==
  IF node.is_leaf THEN <<>>
  ELSE (IF node.children[1].value # <<"<", "=">>
        THEN << <<node.children[1].value, Len(node.children) - 1>> >>
        ELSE <<>>)
       \o FunctorsOfNodesInOrder(Tail(node.children))

\* the same of the nodes of a forest, left to right
FunctorsOfNodesInOrder(nodes) ==
  IF nodes = <<>> THEN <<>>
  ELSE FunctorsInOrder(Head(nodes)) \o FunctorsOfNodesInOrder(Tail(nodes))

\* the places of a sequence of <<name, arity>> where name stands
PlacesOf(name, functors) == { i \in DOMAIN functors : functors[i][1] = name }

Least(places) == CHOOSE i \in places : \A j \in places : i <= j
Greatest(places) == CHOOSE i \in places : \A j \in places : j <= i

\* the values of the leaves that are variables
VariablesIn(node) == { v \in LeafValuesOf(node) : v # <<>> /\ v[1] = "?" }

\* the positions <<functor, index>> at which v is a direct argument of a
\* compound of the node, at any depth
PositionsIn(v, node) ==
  UNION { { <<c.children[1].value, j - 1>> :
              j \in { i \in 2..Len(c.children) :
                        c.children[i].is_leaf /\ c.children[i].value = v } } :
          c \in Compounds(node) }

HeadPositions(v, rule) == PositionsIn(v, rule.children[2])

BodyPositions(v, rule) ==
  UNION { PositionsIn(v, rule.children[i]) : i \in 3..Len(rule.children) }

-----------------------------------------------------------------------------
(* C11 *)

\* C11 as claimed: on a forest of compounds of two or more children with a
\* leaf first, CollectFunctorAtoms has one entry for every functor name
\* but "<=", and maps a name to the arity of the compound it heads that
\* comes last in the order of traversal.
C11_LastArityWins ==
  (out.op = "Collectors" /\ WellFormed(out.input)) =>
    LET functors == FunctorsOfNodesInOrder(out.input)
        map == out.functor_atoms.map
    IN  /\ out.functor_atoms.status = "ok"
        /\ DOMAIN map = { functors[i][1] : i \in DOMAIN functors }
        /\ <<"<", "=">> \notin DOMAIN map
        /\ \A name \in DOMAIN map :
             map[name] = functors[Greatest(PlacesOf(name, functors))][2]

\* C11 as amended: the same, the arity being that of the compound that
\* comes first in the order of traversal.
C11_FirstArityWins ==
  (out.op = "Collectors" /\ WellFormed(out.input)) =>
    LET functors == FunctorsOfNodesInOrder(out.input)
        map == out.functor_atoms.map
    IN  /\ out.functor_atoms.status = "ok"
        /\ DOMAIN map = { functors[i][1] : i \in DOMAIN functors }
        /\ <<"<", "=">> \notin DOMAIN map
        /\ \A name \in DOMAIN map :
             map[name] = functors[Least(PlacesOf(name, functors))][2]

\* a name heads a compound and, nested in it, a compound of another arity
C11_Witness ==
  /\ out.op = "Collectors"
  /\ Len(out.input) = 1
  /\ out.functor_atoms.status = "ok"
  /\ LET functors == FunctorsOfNodesInOrder(out.input)
     IN  \E i, j \in DOMAIN functors :
           /\ i < j
           /\ functors[i][1] = functors[j][1]
           /\ functors[i][2] # functors[j][2]
           /\ out.functor_atoms.map[functors[i][1]] = functors[i][2]

-----------------------------------------------------------------------------
(* C12 *)

\* where a comment ends: the characters the pattern's $ matches before
LineTerminators == {"\n", "\r", "\f"}

\* the i-th character is in a comment: a ";" stands at or before it with no
\* line terminator from the ";" to it
InComment(sexpr, i) ==
  \E j \in 1..i :
    sexpr[j] = ";" /\ \A k \in j..i : sexpr[k] \notin LineTerminators

RECURSIVE OutsideComments(_, _)
\* the characters from the i-th on that are in no comment, in their order
OutsideComments(sexpr, i) ==
  IF i > Len(sexpr) THEN <<>>
  ELSE (IF InComment(sexpr, i) THEN <<>> ELSE <<sexpr[i]>>)
       \o OutsideComments(sexpr, i + 1)

IsLineTerminator(c) == c \in LineTerminators

\* C12: RemoveComments(text) is text without what runs, on each line, from
\* the first ";" to the line terminator or the end of the text; every
\* other character, every line terminator among them, is kept in order;
\* the result holds no ";", and is text when text holds no ";".
C12_CommentStripping ==
  out.op = "RemoveComments" =>
    /\ out.result = OutsideComments(out.sexpr, 1)
    /\ SelectSeq(out.result, IsLineTerminator) = SelectSeq(out.sexpr, IsLineTerminator)
    /\ ";" \notin Range(out.result)
    /\ (";" \notin Range(out.sexpr)) => out.result = out.sexpr

\* a comment was cut before a line terminator that was kept, and a
\* character after it was kept
C12_Witness ==
  /\ out.op = "RemoveComments"
  /\ \E i \in DOMAIN out.sexpr :
       /\ i + 2 <= Len(out.sexpr)
       /\ out.sexpr[i] = ";"
       /\ out.sexpr[i + 1] = "a"
       /\ out.sexpr[i + 2] \in LineTerminators
  /\ out.result # <<>>
  /\ out.result[Len(out.result)] = "a"
  /\ Len(out.result) < Len(out.sexpr)

-----------------------------------------------------------------------------
(* C17 *)

\* C17 as claimed: two variable leaves of different values render as
\* different strings.
C17_VariableEncodingInjective ==
  (/\ out.op = "ToPrologAtomOfTwo"
   /\ IsVariable(out.nodes[1]) /\ IsVariable(out.nodes[2])
   /\ out.nodes[1].value # out.nodes[2].value)
    => out.results[1].str # out.results[2].str

-----------------------------------------------------------------------------
(* C13 *)

\* the rules of a forest
RulesOf(nodes) == { nodes[i] : i \in { j \in DOMAIN nodes : IsRule(nodes[j]) } }

\* <<h, b>>: a variable stands at h in the head and at b in the body of a
\* rule of the forest
HeadBodyPairs(nodes) ==
  UNION { UNION { HeadPositions(v, rule) \X BodyPositions(v, rule) :
                    v \in VariablesIn(rule) } : rule \in RulesOf(nodes) }

\* <<p, q>>: a variable stands at p and at q, two positions, in the body of
\* a rule of the forest
BodyPairs(nodes) ==
  UNION { UNION { { pq \in BodyPositions(v, rule) \X BodyPositions(v, rule) :
                      pq[1] # pq[2] } :
                    v \in VariablesIn(rule) } : rule \in RulesOf(nodes) }

\* every position of a variable in the forest
AllPositions(nodes) ==
  UNION { UNION { PositionsIn(v, nodes[i]) : v \in VariablesIn(nodes[i]) } :
          i \in DOMAIN nodes }

\* the line name(F1, P1, F2, P2). is in the output of the last call
Emitted(name, pair) ==
  ArgsClause(name, pair, out.quotes_atoms, out.functor_prefix) \in out.result.lines

\* C13 as claimed: on a forest of well-formed clauses the helper clauses
\* hold equivalent_args for every head-body pair, hold connected_args only
\* for a body pair that is in neither order a head-body pair of the forest,
\* and never hold both for the same two positions in either order.
C13_HelperClauseExclusion ==
  (out.op = "GeneratePrologHelperClauses" /\ WellFormed(out.input)) =>
    /\ out.result.status = "ok"
    /\ \A pair \in HeadBodyPairs(out.input) : Emitted(equivalent_args, pair)
    /\ \A p, q \in AllPositions(out.input) :
         Emitted(connected_args, <<p, q>>) =>
           /\ <<p, q>> \in BodyPairs(out.input)
           /\ <<p, q>> \notin HeadBodyPairs(out.input)
           /\ <<q, p>> \notin HeadBodyPairs(out.input)
           /\ ~Emitted(equivalent_args, <<p, q>>)
           /\ ~Emitted(equivalent_args, <<q, p>>)

-----------------------------------------------------------------------------
(* C14 *)

\* C14: CollectSameDomainArgsInBody of a rule holds, for every variable and
\* every two different positions of it in the compound goals, exactly one
\* of the two pairs of them, and nothing else.
C14_SameDomainArgsInBody ==
  (/\ out.op = "CollectSameDomainArgsInBody"
   /\ IsRule(out.node) /\ WellFormed(<<out.node>>)) =>
    /\ out.result.status = "ok"
    /\ \A v \in VariablesIn(out.node) :
         \A p, q \in BodyPositions(v, out.node) :
           p # q => (<<p, q>> \in out.result.set) # (<<q, p>> \in out.result.set)
    /\ \A pair \in out.result.set :
         /\ pair[1] # pair[2]
         /\ \E v \in VariablesIn(out.node) :
              {pair[1], pair[2]} \subseteq BodyPositions(v, out.node)

\* a variable of the head stands at three positions of the goals, and the
\* result pairs each two of them
C14_Witness ==
  /\ out.op = "CollectSameDomainArgsInBody"
  /\ IsRule(out.node)
  /\ out.result.status = "ok"
  /\ \E v \in VariablesIn(out.node) :
       /\ Cardinality(BodyPositions(v, out.node)) = 3
       /\ HeadPositions(v, out.node) # {}
  /\ Cardinality(out.result.set) >= 3

-----------------------------------------------------------------------------
(* C15 *)

\* C15: CollectSameDomainArgsBetweenHeadAndBody of a rule is the set of
\* <<h, b>>, h a position of a variable in the head and b a position of the
\* same variable in a compound goal; it is empty when the rule has no goal
\* or its head is a leaf.
C15_SameDomainArgsBetweenHeadAndBody ==
  (/\ out.op = "CollectSameDomainArgsBetweenHeadAndBody"
   /\ IsRule(out.node) /\ WellFormed(<<out.node>>)) =>
    /\ out.result.status = "ok"
    /\ out.result.set =
         UNION { HeadPositions(v, out.node) \X BodyPositions(v, out.node) :
                   v \in VariablesIn(out.node) }
    /\ (Len(out.node.children) = 2 \/ out.node.children[2].is_leaf) =>
         out.result.set = {}

\* a variable of the head and the body is paired head first, while another
\* variable stands twice in the body only
C15_Witness ==
  /\ out.op = "CollectSameDomainArgsBetweenHeadAndBody"
  /\ IsRule(out.node)
  /\ out.result.status = "ok"
  /\ \E v, w \in VariablesIn(out.node) :
       /\ HeadPositions(v, out.node) # {}
       /\ BodyPositions(v, out.node) # {}
       /\ HeadPositions(v, out.node) \cap BodyPositions(v, out.node) = {}
       /\ HeadPositions(w, out.node) = {}
       /\ Cardinality(BodyPositions(w, out.node)) = 2
  /\ out.result.set # {}

-----------------------------------------------------------------------------
(* C16 *)

\* C16 as claimed: on a forest whose compounds have two or more children and
\* a leaf first, CollectAtoms is the union of CollectNonFunctorAtoms and
\* the keys of CollectFunctorAtoms, and no key starts with "?".
C16_CollectorsConsistent ==
  (out.op = "Collectors" /\ WellFormed(out.input)) =>
    /\ out.atoms.status = "ok"
    /\ out.non_functor_atoms.status = "ok"
    /\ out.functor_atoms.status = "ok"
    /\ out.atoms.set = out.non_functor_atoms.set \cup DOMAIN out.functor_atoms.map
    /\ \A name \in DOMAIN out.functor_atoms.map : ~(name # <<>> /\ name[1] = "?")

=============================================================================
